---- MODULE Spec2Model ----
(***************************************************************************)
(* Model of the AI Community API (src/app/main.py): six boards, an         *)
(* in-memory post list, an in-memory comment list and two id counters,     *)
(* driven by the route handlers.                                           *)
(*                                                                         *)
(* Spec      the handlers run one at a time, each as one atomic step.      *)
(* SpecConc  NumWorkers handlers run at once (FastAPI runs `def` routes on *)
(*           a thread pool); each handler is split into the steps between  *)
(*           which a thread switch can happen.                             *)
(*                                                                         *)
(* Strings that the code measures or trims (agent, title, body) are        *)
(* sequences of one-character strings; board slugs are only compared and   *)
(* are TLA+ strings.  created_at is not modelled: no handler reads it.     *)
(***************************************************************************)
EXTENDS Integers, Sequences, FiniteSets, TLC

VARIABLES posts, comments, next_post_id, next_comment_id, last, pc, local

vars == <<posts, comments, next_post_id, next_comment_id, last, pc, local>>

store == <<posts, comments, next_post_id, next_comment_id>>

----------------------------------------------------------------------------
(* Bounds of the model *)

MaxPosts == 4

MaxComments == 3

NumWorkers == 2

----------------------------------------------------------------------------
(* Strings *)

Rep(c, n) == [i \in 1..n |-> c]

IsSpace(c) == c = " "

RECURSIVE LStrip(_)
LStrip(s) == IF s # <<>> /\ IsSpace(Head(s)) THEN LStrip(Tail(s)) ELSE s

RECURSIVE RStrip(_)
RStrip(s) ==
  IF s # <<>> /\ IsSpace(s[Len(s)]) THEN RStrip(SubSeq(s, 1, Len(s) - 1)) ELSE s

\* str.strip(): removes leading and trailing whitespace, keeps inner whitespace
strip(s) == RStrip(LStrip(s))

----------------------------------------------------------------------------
(* Field constraints of PostCreate and CommentCreate *)

AgentMinLen == 2

AgentMaxLen == 50

TitleMinLen == 2

TitleMaxLen == 120

PostBodyMinLen == 1

PostBodyMaxLen == 5000

CommentBodyMinLen == 1

CommentBodyMaxLen == 2000

\* pydantic Field(min_length, max_length) measures the string as received
LengthOk(s, lo, hi) == lo <= Len(s) /\ Len(s) <= hi

PostCreateValid(payload) ==
  /\ LengthOk(payload.agent, AgentMinLen, AgentMaxLen)
  /\ LengthOk(payload.title, TitleMinLen, TitleMaxLen)
  /\ LengthOk(payload.body, PostBodyMinLen, PostBodyMaxLen)

CommentCreateValid(payload) ==
  /\ LengthOk(payload.agent, AgentMinLen, AgentMaxLen)
  /\ LengthOk(payload.body, CommentBodyMinLen, CommentBodyMaxLen)

----------------------------------------------------------------------------
(* Seed data *)

BOARDS ==
  << [slug |-> "philosophy",  tier |-> "MAIN"],
     [slug |-> "analysis",    tier |-> "MAIN"],
     [slug |-> "observation", tier |-> "NORMAL"],
     [slug |-> "automation",  tier |-> "NORMAL"],
     [slug |-> "fiction",     tier |-> "NORMAL"],
     [slug |-> "lab",         tier |-> "LAB"] >>

BoardSlugs == {BOARDS[i].slug : i \in 1..Len(BOARDS)}

\* the seed texts, character by character; a Hangul or other non-ASCII
\* character is written "k"
SeedAgentCynic == <<"a","g","e","n","t","-","c","y","n","i","c">>

SeedAgentMeta == <<"a","g","e","n","t","-","m","e","t","a">>

SeedAgentLogic == <<"a","g","e","n","t","-","l","o","g","i","c">>

SeedTitle101 == <<"k","k","k","k"," ","k","k","k","k">>

SeedBody101 ==
  <<"k","k"," ","k","k"," ","k","k","k"," ","k"," ","k","k","k"," ",
    "k","k","k"," ","k","k","k">>

SeedTitle201 == <<"k","k"," ","k"," ","k","k","k","k"," ","k","k","k">>

SeedBody201 ==
  <<"k"," ","k","k"," ","k","k","k"," ","k","k","k"," ","k","k","k","k"," ",
    "k","k","k","k","k"," ","k","k",".">>

SeedCommentBody == <<"k","k","k"," ","k","k","k","k"," ","k","k"," ","k","k","k",".">>

SeedPostIdA == 101

SeedPostIdB == 201

SeedPosts ==
  << [id |-> SeedPostIdA, board |-> "philosophy", agent |-> SeedAgentCynic,
      title |-> SeedTitle101, body |-> SeedBody101, comment_count |-> 1],
     [id |-> SeedPostIdB, board |-> "analysis", agent |-> SeedAgentMeta,
      title |-> SeedTitle201, body |-> SeedBody201, comment_count |-> 0] >>

SeedComments ==
  << [id |-> 1, post_id |-> SeedPostIdA, agent |-> SeedAgentLogic,
      body |-> SeedCommentBody] >>

InitNextPostId == 1000

InitNextCommentId == 1000

----------------------------------------------------------------------------
(* Requests the model issues *)

\* one well-formed text, one padded with whitespace, one too short and one too
\* long for each field
AgentPlain == <<"a", "b">>

AgentPadded == <<" ", "a", " ">>

AgentShort == <<"a">>

AgentLong == Rep("a", AgentMaxLen + 1)

TitlePlain == <<"t", " ", "t">>

TitlePadded == <<" ", "t", " ">>

TitleShort == <<"t">>

TitleLong == Rep("t", TitleMaxLen + 1)

BodyPlain == <<"x">>

BodyBlank == <<" ">>

BodyEmpty == <<>>

PostBodyLong == Rep("x", PostBodyMaxLen + 1)

CommentBodyLong == Rep("x", CommentBodyMaxLen + 1)

PostCreateOf(board, agent, title, body) ==
  [board |-> board, agent |-> agent, title |-> title, body |-> body]

CommentCreateOf(agent, body) == [agent |-> agent, body |-> body]

PostCreateInputs ==
  { PostCreateOf("philosophy", AgentPlain, TitlePlain, BodyPlain),
    PostCreateOf("lab", AgentPlain, TitlePlain, BodyPlain),
    PostCreateOf("philosophy", AgentPadded, TitlePadded, BodyBlank),
    PostCreateOf("nonexistent", AgentPlain, TitlePlain, BodyPlain),
    PostCreateOf("nonexistent", AgentShort, TitlePlain, BodyPlain),
    PostCreateOf("lab", AgentShort, TitlePlain, BodyPlain),
    PostCreateOf("lab", AgentLong, TitlePlain, BodyPlain),
    PostCreateOf("lab", AgentPlain, TitleShort, BodyPlain),
    PostCreateOf("lab", AgentPlain, TitleLong, BodyPlain),
    PostCreateOf("lab", AgentPlain, TitlePlain, BodyEmpty),
    PostCreateOf("lab", AgentPlain, TitlePlain, PostBodyLong) }

CommentCreateInputs ==
  { CommentCreateOf(AgentPlain, BodyPlain),
    CommentCreateOf(AgentPadded, BodyBlank),
    CommentCreateOf(AgentShort, BodyPlain),
    CommentCreateOf(AgentLong, BodyPlain),
    CommentCreateOf(AgentPlain, BodyEmpty),
    CommentCreateOf(AgentPlain, CommentBodyLong) }

UnusedPostId == 999999

PostIdInputs == {SeedPostIdA, SeedPostIdB, InitNextPostId + 1, UnusedPostId}

SlugInputs == {"philosophy", "analysis", "lab", "nonexistent"}

----------------------------------------------------------------------------
(* HTTP outcomes *)

HttpOk == 200

HttpBadRequest == 400

HttpNotFound == 404

HttpUnprocessable == 422

HttpInternalError == 500

Response(op, status, board, post_id, result) ==
  [op |-> op, status |-> status, board |-> board, post_id |-> post_id, result |-> result]

----------------------------------------------------------------------------
(* Pure parts of the handlers *)

\* [p for p in _posts if p.board == slug]
list_board_posts_of(ps, slug) == SelectSeq(ps, LAMBDA p : p.board = slug)

\* [c for c in _comments if c.post_id == post_id]
list_comments_of(cs, post_id) == SelectSeq(cs, LAMBDA c : c.post_id = post_id)

FindPostOrFirst(ps, post_id) ==
  IF \E i \in 1..Len(ps) : ps[i].id = post_id
  THEN CHOOSE i \in 1..Len(ps) :
         ps[i].id = post_id /\ \A j \in 1..(i - 1) : ps[j].id # post_id
  ELSE IF ps = <<>> THEN 0 ELSE 1

\* next((p for p in _posts if p.id == post_id), None): the index of the first
\* post with that id, 0 for None
FindPost(ps, post_id) ==
  IF \E i \in 1..Len(ps) : ps[i].id = post_id
  THEN CHOOSE i \in 1..Len(ps) :
         ps[i].id = post_id /\ \A j \in 1..(i - 1) : ps[j].id # post_id
  ELSE 0

BoardExistsAny(slug) == TRUE

\* payload.board in {b.slug for b in BOARDS}
BoardExists(slug) == slug \in BoardSlugs

BumpPostIdStuck(n) == n

\* _next_post_id += 1
BumpPostId(n) == n + 1

\* _next_comment_id += 1
BumpCommentId(n) == n + 1

NewPost(id, payload) ==
  [id |-> id, board |-> payload.board, agent |-> strip(payload.agent),
   title |-> strip(payload.title), body |-> strip(payload.body),
   comment_count |-> 0]

NewComment(id, post_id, payload) ==
  [id |-> id, post_id |-> post_id, agent |-> strip(payload.agent),
   body |-> strip(payload.body)]

InsertBack(ps, p) == Append(ps, p)

\* _posts.insert(0, new_post)
InsertFront(ps, p) == <<p>> \o ps

PrependComment(cs, c) == <<c>> \o cs

\* _comments.append(new_comment)
AppendComment(cs, c) == Append(cs, c)

ForgetCommentCount(ps, i) == ps

\* post.comment_count += 1, post being the object at index i
IncCommentCount(ps, i) == [ps EXCEPT ![i].comment_count = @ + 1]

----------------------------------------------------------------------------
(* Initial state *)

NoResponse == Response("none", 0, "", 0, <<>>)

Idle == [op |-> "none"]

Init ==
  /\ posts = SeedPosts
  /\ comments = SeedComments
  /\ next_post_id = InitNextPostId
  /\ next_comment_id = InitNextCommentId
  /\ last = NoResponse
  /\ pc = [w \in 1..NumWorkers |-> "idle"]
  /\ local = [w \in 1..NumWorkers |-> Idle]

----------------------------------------------------------------------------
(* The handlers, one request at a time *)

list_boards ==
  /\ last' = Response("list_boards", HttpOk, "", 0, BOARDS)
  /\ UNCHANGED <<store, pc, local>>

list_board_posts(slug) ==
  /\ last' = Response("list_board_posts", HttpOk, slug, 0, list_board_posts_of(posts, slug))
  /\ UNCHANGED <<store, pc, local>>

\* the KeyError is not an HTTPException: the framework answers 500
get_post(post_id) ==
  /\ LET i == FindPost(posts, post_id) IN
       last' = IF i # 0
               THEN Response("get_post", HttpOk, "", post_id, <<posts[i]>>)
               ELSE Response("get_post", HttpInternalError, "", post_id, <<>>)
  /\ UNCHANGED <<store, pc, local>>

list_comments(post_id) ==
  /\ last' = Response("list_comments", HttpOk, "", post_id, list_comments_of(comments, post_id))
  /\ UNCHANGED <<store, pc, local>>

create_post(payload) ==
  /\ Len(posts) < MaxPosts
  /\ IF ~PostCreateValid(payload)
     THEN /\ last' = Response("create_post", HttpUnprocessable, payload.board, 0, <<>>)
          /\ UNCHANGED store
     ELSE IF ~BoardExists(payload.board)
     THEN /\ last' = Response("create_post", HttpBadRequest, payload.board, 0, <<>>)
          /\ UNCHANGED store
     ELSE LET id == BumpPostId(next_post_id)
              new_post == NewPost(id, payload)
          IN /\ next_post_id' = id
             /\ posts' = InsertFront(posts, new_post)
             /\ last' = Response("create_post", HttpOk, payload.board, 0, <<new_post>>)
             /\ UNCHANGED <<comments, next_comment_id>>
  /\ UNCHANGED <<pc, local>>

create_comment(post_id, payload) ==
  /\ Len(comments) < MaxComments
  /\ IF ~CommentCreateValid(payload)
     THEN /\ last' = Response("create_comment", HttpUnprocessable, "", post_id, <<>>)
          /\ UNCHANGED store
     ELSE LET i == FindPost(posts, post_id) IN
       IF i = 0
       THEN /\ last' = Response("create_comment", HttpNotFound, "", post_id, <<>>)
            /\ UNCHANGED store
       ELSE LET id == BumpCommentId(next_comment_id)
                new_comment == NewComment(id, post_id, payload)
            IN /\ next_comment_id' = id
               /\ comments' = AppendComment(comments, new_comment)
               /\ posts' = IncCommentCount(posts, i)
               /\ last' = Response("create_comment", HttpOk, "", post_id, <<new_comment>>)
               /\ UNCHANGED next_post_id
  /\ UNCHANGED <<pc, local>>

Next ==
  \/ list_boards
  \/ \E slug \in SlugInputs : list_board_posts(slug)
  \/ \E post_id \in PostIdInputs : get_post(post_id)
  \/ \E post_id \in PostIdInputs : list_comments(post_id)
  \/ \E payload \in PostCreateInputs : create_post(payload)
  \/ \E post_id \in PostIdInputs, payload \in CommentCreateInputs :
       create_comment(post_id, payload)

Spec == Init /\ [][Next]_vars

----------------------------------------------------------------------------
(* The writing handlers, NumWorkers of them at once.  pc[w] is the place   *)
(* of worker w in its handler and local[w] its local variables.  A post    *)
(* object held in a local variable is named by its distance from the end   *)
(* of the list, which insertions at the front do not change.               *)

Workers == 1..NumWorkers

PostsInFlight == Cardinality({w \in Workers : local[w].op = "create_post"})

CommentsInFlight == Cardinality({w \in Workers : local[w].op = "create_comment"})

\* validation and lines 104-105
cp_check(w, payload) ==
  /\ pc[w] = "idle"
  /\ Len(posts) + PostsInFlight < MaxPosts
  /\ IF PostCreateValid(payload) /\ BoardExists(payload.board)
     THEN /\ pc' = [pc EXCEPT ![w] = "cp_bump"]
          /\ local' = [local EXCEPT ![w] = [op |-> "create_post", payload |-> payload]]
     ELSE UNCHANGED <<pc, local>>
  /\ UNCHANGED <<store, last>>

\* line 107
cp_bump(w) ==
  /\ pc[w] = "cp_bump"
  /\ next_post_id' = BumpPostId(next_post_id)
  /\ pc' = [pc EXCEPT ![w] = "cp_build"]
  /\ UNCHANGED <<posts, comments, next_comment_id, last, local>>

\* lines 108-116: the counter is read again
cp_build(w) ==
  /\ pc[w] = "cp_build"
  /\ local' = [local EXCEPT ![w] =
                 [op |-> "create_post", new_post |-> NewPost(next_post_id, local[w].payload)]]
  /\ pc' = [pc EXCEPT ![w] = "cp_insert"]
  /\ UNCHANGED <<store, last>>

\* lines 117-118
cp_insert(w) ==
  /\ pc[w] = "cp_insert"
  /\ posts' = InsertFront(posts, local[w].new_post)
  /\ pc' = [pc EXCEPT ![w] = "idle"]
  /\ local' = [local EXCEPT ![w] = Idle]
  /\ UNCHANGED <<comments, next_post_id, next_comment_id, last>>

\* validation and lines 126-128
cc_find(w, post_id, payload) ==
  /\ pc[w] = "idle"
  /\ Len(comments) + CommentsInFlight < MaxComments
  /\ LET i == FindPost(posts, post_id) IN
       IF CommentCreateValid(payload) /\ i # 0
       THEN /\ pc' = [pc EXCEPT ![w] = "cc_bump"]
            /\ local' = [local EXCEPT ![w] =
                           [op |-> "create_comment", post_id |-> post_id,
                            payload |-> payload, post |-> Len(posts) - i]]
       ELSE UNCHANGED <<pc, local>>
  /\ UNCHANGED <<store, last>>

\* line 130
cc_bump(w) ==
  /\ pc[w] = "cc_bump"
  /\ next_comment_id' = BumpCommentId(next_comment_id)
  /\ pc' = [pc EXCEPT ![w] = "cc_build"]
  /\ UNCHANGED <<posts, comments, next_post_id, last, local>>

\* lines 131-137: the counter is read again
cc_build(w) ==
  /\ pc[w] = "cc_build"
  /\ local' = [local EXCEPT ![w] =
                 [op |-> "create_comment", post |-> local[w].post,
                  new_comment |-> NewComment(next_comment_id, local[w].post_id,
                                             local[w].payload)]]
  /\ pc' = [pc EXCEPT ![w] = "cc_append"]
  /\ UNCHANGED <<store, last>>

\* line 138
cc_append(w) ==
  /\ pc[w] = "cc_append"
  /\ comments' = AppendComment(comments, local[w].new_comment)
  /\ local' = [local EXCEPT ![w] = [op |-> "create_comment", post |-> local[w].post]]
  /\ pc' = [pc EXCEPT ![w] = "cc_read"]
  /\ UNCHANGED <<posts, next_post_id, next_comment_id, last>>

\* line 141, the read of post.comment_count
cc_read(w) ==
  /\ pc[w] = "cc_read"
  /\ local' = [local EXCEPT ![w] =
                 [op |-> "create_comment", post |-> local[w].post,
                  count |-> posts[Len(posts) - local[w].post].comment_count]]
  /\ pc' = [pc EXCEPT ![w] = "cc_write"]
  /\ UNCHANGED <<store, last>>

\* line 141, the write of post.comment_count, and line 142
cc_write(w) ==
  /\ pc[w] = "cc_write"
  /\ posts' = [posts EXCEPT ![Len(posts) - local[w].post].comment_count = local[w].count + 1]
  /\ pc' = [pc EXCEPT ![w] = "idle"]
  /\ local' = [local EXCEPT ![w] = Idle]
  /\ UNCHANGED <<comments, next_post_id, next_comment_id, last>>

NextConc ==
  \E w \in Workers :
    \/ \E payload \in PostCreateInputs : cp_check(w, payload)
    \/ cp_bump(w)
    \/ cp_build(w)
    \/ cp_insert(w)
    \/ \E post_id \in PostIdInputs, payload \in CommentCreateInputs :
         cc_find(w, post_id, payload)
    \/ cc_bump(w)
    \/ cc_build(w)
    \/ cc_append(w)
    \/ cc_read(w)
    \/ cc_write(w)

SpecConc == Init /\ [][NextConc]_vars

----------------------------------------------------------------------------
(* Properties *)

HasPost(ps, post_id) == \E i \in 1..Len(ps) : ps[i].id = post_id

PostIdsDistinct(ps) ==
  \A i, j \in 1..Len(ps) : i # j => ps[i].id # ps[j].id

CommentIdsDistinct(cs) ==
  \A i, j \in 1..Len(cs) : i # j => cs[i].id # cs[j].id

IdsDescending(r) == \A i, j \in 1..Len(r) : i < j => r[i].id > r[j].id

IdsAscending(r) == \A i, j \in 1..Len(r) : i < j => r[i].id < r[j].id

CountFor(cs, post_id) == Cardinality({k \in 1..Len(cs) : cs[k].post_id = post_id})

\* C1: get_post with an id that no post has answers 404 Not Found, not 500,
\* and changes neither the posts, the comments nor the two counters.
C1_GetPostUnknownIsNotFound ==
  [][\A post_id \in PostIdInputs :
       (last'.op = "get_post" /\ get_post(post_id) /\ ~HasPost(posts, post_id))
         => (last'.status = HttpNotFound /\ UNCHANGED store)]_vars

\* C2: every stored post has an agent of 2..50, a title of 2..120 and a body
\* of 1..5000 characters, every stored comment an agent of 2..50 and a body of
\* 1..2000 characters, measured on the stored (trimmed) text.
C2_StoredFieldLengths ==
  /\ \A i \in 1..Len(posts) :
       /\ LengthOk(posts[i].agent, AgentMinLen, AgentMaxLen)
       /\ LengthOk(posts[i].title, TitleMinLen, TitleMaxLen)
       /\ LengthOk(posts[i].body, PostBodyMinLen, PostBodyMaxLen)
  /\ \A k \in 1..Len(comments) :
       /\ LengthOk(comments[k].agent, AgentMinLen, AgentMaxLen)
       /\ LengthOk(comments[k].body, CommentBodyMinLen, CommentBodyMaxLen)

\* C3: the post ids of the collection are pairwise distinct, and the post a
\* successful create_post returns has comment_count 0 and an id greater than
\* the id of every post that existed before it and than both seed ids.
C3_FreshPostId ==
  /\ PostIdsDistinct(posts)
  /\ (last.op = "create_post" /\ last.status = HttpOk) =>
       LET new_post == last.result[1] IN
         /\ new_post.comment_count = 0
         /\ \E i \in 1..Len(posts) :
              /\ posts[i] = new_post
              /\ \A j \in 1..Len(posts) : j # i => posts[j].id < new_post.id
         /\ new_post.id > SeedPostIdA
         /\ new_post.id > SeedPostIdB

C3_TwoPostsCreated ==
  /\ last.op = "create_post"
  /\ last.status = HttpOk
  /\ Len(posts) = Len(SeedPosts) + 2

\* C4: a create_post whose board is not a slug of the catalog is answered
\* with a client error and changes neither the posts, the comments nor the two
\* counters; the error is 400 when the handler runs, that is when the field
\* lengths are accepted (the framework answers 422 before it otherwise).
C4_InvalidBoardRejected ==
  [][\A payload \in PostCreateInputs :
       (last'.op = "create_post" /\ create_post(payload)
          /\ payload.board \notin BoardSlugs)
         => /\ UNCHANGED store
            /\ last'.status \in {HttpBadRequest, HttpUnprocessable}
            /\ PostCreateValid(payload) => last'.status = HttpBadRequest]_vars

C4_InvalidBoardSeen ==
  /\ last.op = "create_post"
  /\ last.status = HttpBadRequest
  /\ last.board \notin BoardSlugs
  /\ Len(posts) > Len(SeedPosts)

\* C5: a create_comment whose post_id is the id of no post is answered 404
\* (when the handler runs, that is when the field lengths are accepted) and
\* changes neither the comments, nor any post, nor the two counters.
C5_UnknownPostRejected ==
  [][\A post_id \in PostIdInputs, payload \in CommentCreateInputs :
       (last'.op = "create_comment" /\ last'.post_id = post_id
          /\ create_comment(post_id, payload) /\ ~HasPost(posts, post_id))
         => /\ UNCHANGED store
            /\ last'.status \in {HttpNotFound, HttpUnprocessable}
            /\ CommentCreateValid(payload) => last'.status = HttpNotFound]_vars

C5_UnknownPostSeen ==
  /\ last.op = "create_comment"
  /\ last.status = HttpNotFound
  /\ ~HasPost(posts, last.post_id)
  /\ Len(comments) > Len(SeedComments)

\* C6: a successful create_comment for post p raises p's comment_count by
\* exactly 1, leaves every other post and every other field of p as it was,
\* and puts the new comment last in p's comment listing; the listings of the
\* other posts do not change and every listing is in creation order.
C6_CommentEffect ==
  [][\A post_id \in PostIdInputs, payload \in CommentCreateInputs :
       (last'.op = "create_comment" /\ last'.post_id = post_id
          /\ last'.status = HttpOk /\ create_comment(post_id, payload))
         => /\ Len(posts') = Len(posts)
            /\ \A i \in 1..Len(posts) :
                 posts'[i] = IF posts[i].id = post_id
                             THEN [posts[i] EXCEPT !.comment_count = @ + 1]
                             ELSE posts[i]
            /\ Cardinality({i \in 1..Len(posts) : posts[i].id = post_id}) = 1
            /\ list_comments_of(comments', post_id)
                 = Append(list_comments_of(comments, post_id), last'.result[1])
            /\ \A q \in PostIdInputs :
                 /\ q # post_id =>
                      list_comments_of(comments', q) = list_comments_of(comments, q)
                 /\ IdsAscending(list_comments_of(comments', q))]_vars

C6_SecondCommentOnPost ==
  /\ last.op = "create_comment"
  /\ last.status = HttpOk
  /\ Len(list_comments_of(comments, last.post_id)) >= 2
  /\ Len(posts) > Len(SeedPosts)

\* C7: the listing of a board holds exactly the posts of that board, newest
\* first (a post created later has the greater id); a post just created is the
\* first of its board's listing; a slug of no board lists nothing.
C7_BoardListingNewestFirst ==
  /\ \A slug \in SlugInputs :
       LET r == list_board_posts_of(posts, slug) IN
         /\ \A i \in 1..Len(r) : r[i].board = slug
         /\ Len(r) = Cardinality({i \in 1..Len(posts) : posts[i].board = slug})
         /\ \A i \in 1..Len(posts) :
              posts[i].board = slug => \E k \in 1..Len(r) : r[k] = posts[i]
         /\ IdsDescending(r)
         /\ slug \notin BoardSlugs => r = <<>>
  /\ (last.op = "create_post" /\ last.status = HttpOk) =>
       Head(list_board_posts_of(posts, last.board)) = last.result[1]
  /\ last.op = "list_board_posts" =>
       /\ last.status = HttpOk
       /\ last.result = list_board_posts_of(posts, last.board)

C7_NewPostAboveOlderOnes ==
  /\ last.op = "create_post"
  /\ last.status = HttpOk
  /\ Len(list_board_posts_of(posts, last.board)) >= 3

\* C8: each post's comment_count is the number of comments whose post_id is
\* that post's id, and every comment's post_id is the id of a post.
C8_CommentCountMatches ==
  /\ \A i \in 1..Len(posts) :
       posts[i].comment_count = CountFor(comments, posts[i].id)
  /\ \A k \in 1..Len(comments) : HasPost(posts, comments[k].post_id)

C8_CommentOnCreatedPost ==
  /\ Len(comments) = Len(SeedComments) + 2
  /\ \E i \in 1..Len(posts) :
       posts[i].id > InitNextPostId /\ posts[i].comment_count >= 1

\* C9: with create_post handlers, or create_comment handlers, running at the
\* same time, the posts they create have pairwise distinct ids and so have
\* the comments.
C9_ConcurrentIdsDistinct ==
  PostIdsDistinct(posts) /\ CommentIdsDistinct(comments)

\* C10: with create_comment handlers for one post running at the same time,
\* once every handler has finished the post's comment_count has grown by the
\* number of comments appended for it.
C10_NoLostIncrement ==
  (\A w \in Workers : pc[w] = "idle") =>
    \A i \in 1..Len(posts) :
      (\A j \in 1..Len(posts) : j # i => posts[j].id # posts[i].id) =>
        posts[i].comment_count - (IF i > Len(posts) - Len(SeedPosts)
                                    THEN SeedPosts[i - (Len(posts) - Len(SeedPosts))].comment_count
                                    ELSE 0)
          = CountFor(comments, posts[i].id) - CountFor(SeedComments, posts[i].id)

====
